---- MODULE Spec2Model ----
(***************************************************************************)
(* Model of the schedule evaluator of traveling_rustling                   *)
(* (src/src/penalties/time.rs and its helpers), of the penalizer that      *)
(* compares solutions (src/src/penalizer.rs), of the local-search driver   *)
(* (src/src/solver.rs, src/src/route.rs), of the input adapter            *)
(* (src/src/input.rs) and of the order on solutions (src/src/output.rs),   *)
(* with single calls of the functions of time_windows.rs and               *)
(* operation_times.rs.  The moves of local_moves.rs follow section 4.6 of  *)
(* the specification.                                                      *)
(*                                                                         *)
(* Time is an integer number of hours since the Unix epoch (the code       *)
(* counts seconds; every operation modelled here is linear in the unit).   *)
(* A chrono::Duration is an integer number of hours.  An Option is a       *)
(* sequence of length 0 (None) or 1 (Some).                                *)
(***************************************************************************)
EXTENDS Integers, Sequences, FiniteSets, TLC

\* ------------------------------------------------------------------ bounds

\* Number of locations of the enumerated inputs.
NumLoc == 2
\* Longest job duration of the enumerated inputs (longer than the daily span).
MaxJob == 9
\* Longest travel duration of the enumerated inputs.
MaxTravel == 3

\* --------------------------------------------------------------- constants

HoursPerDay == 24
DaysPerWeek == 7

\* ----------------------------------------------------------------- helpers

None == << >>
Some(x) == << x >>
IsSome(o) == o # << >>
Unwrap(o) == o[1]

Min2(a, b) == IF a <= b THEN a ELSE b
Max2(a, b) == IF a >= b THEN a ELSE b

\* chrono: the calendar date (days since the epoch) and the time of day of t.
DateOf(t) == t \div HoursPerDay
TimeOf(t) == t % HoursPerDay
\* chrono: NaiveDate::and_time / DateTime::with_time.
AndTime(date, time) == date * HoursPerDay + time
\* chrono: Datelike::weekday().num_days_from_monday(); 1970-01-01 is a Thursday.
Weekday(date) == (date + 3) % DaysPerWeek

\* ------------------------------------------------- time_windows.rs

TimeWindow(start, end) == [start |-> start, end |-> end]
Duration(tw) == tw.end - tw.start

\* TimeWindow::lateness
TimeWindowLateness(tw, time) == IF time > tw.end THEN time - tw.end ELSE 0

\* Variant of Lateness: against the first window.
LatenessFirstWindow(windows, time) ==
    IF windows = << >> THEN 0 ELSE TimeWindowLateness(windows[1], time)

\* TimeWindows::lateness: against the last window only, zero if there is none.
Lateness(windows, time) ==
    IF windows = << >> THEN 0 ELSE TimeWindowLateness(windows[Len(windows)], time)

\* Variant of SearchIndexes: Ok(k) is used as it is, without the + 1.
SearchIndexesNoSkip(windows, current_time) ==
    LET hits == {k \in 1..Len(windows) : windows[k].end = current_time}
    IN  IF hits # {}
        THEN {k - 1 : k \in hits}
        ELSE {Cardinality({k \in 1..Len(windows) : windows[k].end < current_time})}

\* The index (0-based, as in the code) that the binary search on the window
\* ends yields: Ok(k) => k + 1 for any k whose end equals current_time,
\* Err(k) => k, the number of windows whose end is before current_time.
SearchIndexes(windows, current_time) ==
    LET hits == {k \in 1..Len(windows) : windows[k].end = current_time}
    IN  IF hits # {}
        THEN {k : k \in hits}
        ELSE {Cardinality({k \in 1..Len(windows) : windows[k].end < current_time})}

\* TimeWindows::find_next_fitting_time, after the binary search produced index.
TwFindNextFittingTime(windows, index, current_time, job_duration, must_fit) ==
    IF windows = << >> \/ index = Len(windows)
    THEN None
    ELSE IF ~must_fit
    THEN LET w == windows[index + 1]
             start == Max2(w.start, current_time)
         IN  Some(TimeWindow(start, start + Min2(Duration(w), job_duration)))
    ELSE LET fits == {k \in (index + 1)..Len(windows) : Duration(windows[k]) >= job_duration}
         IN  IF fits = {}
             THEN None
             ELSE LET w == windows[CHOOSE k \in fits : \A m \in fits : k <= m]
                      start == Max2(w.start, current_time)
                  IN  Some(TimeWindow(start, start + job_duration))

\* ------------------------------------------------- operation_times.rs

\* WorkingDays::new: for each weekday the next working weekday among the six
\* following ones; the entry keeps its initial value Monday when there is none.
NextDayCache(days) ==
    [i \in 0..(DaysPerWeek - 1) |->
        LET js == {j \in 1..(DaysPerWeek - 1) : days[(i + j) % DaysPerWeek]}
        IN  IF js = {}
            THEN 0
            ELSE (i + (CHOOSE j \in js : \A m \in js : j <= m)) % DaysPerWeek]

\* WorkingDays::next_working_day
NextWorkingDay(cache, date) ==
    LET next_day == cache[Weekday(date)]
        diff == (next_day - Weekday(date)) % DaysPerWeek
        days_to_add == IF diff = 0 THEN DaysPerWeek ELSE diff
    IN  date + days_to_add

\* OperationTimes::new
OperationTimes(daily_start, daily_end, working_days) ==
    [daily_start |-> daily_start, daily_end |-> daily_end,
     working_days |-> IF IsSome(working_days)
                      THEN Some(NextDayCache(Unwrap(working_days)))
                      ELSE None]

\* OperationTimes::duration
OpDuration(op) == op.daily_end - op.daily_start

\* OperationTimes::contains
OpContains(op, time) == op.daily_start <= TimeOf(time) /\ TimeOf(time) < op.daily_end

\* OperationTimes::next_day
OpNextDay(op, current_time) ==
    IF IsSome(op.working_days)
    THEN NextWorkingDay(Unwrap(op.working_days), DateOf(current_time))
    ELSE DateOf(current_time + HoursPerDay)

\* OperationTimes::start_next_day
OpStartNextDay(op, current_time) == AndTime(OpNextDay(op, current_time), op.daily_start)

\* Variant of OpWaitingTime: after the daily end the wait runs to midnight.
OpWaitingTimeToMidnight(op, current_time) ==
    IF ~OpContains(op, current_time)
    THEN IF TimeOf(current_time) < op.daily_start
         THEN op.daily_start - TimeOf(current_time)
         ELSE HoursPerDay - TimeOf(current_time)
    ELSE 0

\* OperationTimes::waiting_time
OpWaitingTime(op, current_time) ==
    IF ~OpContains(op, current_time)
    THEN IF TimeOf(current_time) < op.daily_start
         THEN op.daily_start - TimeOf(current_time)
         ELSE OpStartNextDay(op, current_time) - current_time
    ELSE 0

\* Variant of OpFindNextFittingTime: a job longer than the daily span is not
\* refused, it is placed at the start of the next day.
OpFindNextFittingTimeNoRefusal(op, current_time, job_duration, must_fit) ==
    LET start_time == current_time + OpWaitingTime(op, current_time)
        end_time == Min2(start_time + job_duration,
                         AndTime(DateOf(start_time), op.daily_end))
        result_tw == TimeWindow(start_time, end_time)
    IN  IF ~must_fit
        THEN Some(result_tw)
        ELSE IF Duration(result_tw) = job_duration
        THEN Some(result_tw)
        ELSE LET next_start == OpStartNextDay(op, current_time)
             IN  Some(TimeWindow(next_start, next_start + job_duration))

\* OperationTimes::find_next_fitting_time
OpFindNextFittingTime(op, current_time, job_duration, must_fit) ==
    LET start_time == current_time + OpWaitingTime(op, current_time)
        end_time == Min2(start_time + job_duration,
                         AndTime(DateOf(start_time), op.daily_end))
        result_tw == TimeWindow(start_time, end_time)
    IN  IF ~must_fit
        THEN Some(result_tw)
        ELSE IF Duration(result_tw) = job_duration
        THEN Some(result_tw)
        ELSE IF job_duration > OpDuration(op)
        THEN None
        ELSE LET next_start == OpStartNextDay(op, current_time)
             IN  Some(TimeWindow(next_start, next_start + job_duration))

\* ------------------------------------------------- time_output.rs

\* TimeOutput::<Incomplete>::new
TimeOutputNew(start_time) ==
    [start_time |-> start_time, end_time |-> start_time, duration |-> 0,
     lateness |-> 0, working_time |-> 0, waiting_time |-> 0,
     traveling_time |-> 0, job_splits |-> 0, schedule |-> << >>]

WaitEvent(tw) == [kind |-> "Wait", window |-> tw]
TravelEvent(tw) == [kind |-> "Travel", window |-> tw]
WorkEvent(tw, location) == [kind |-> "Work", window |-> tw, location |-> location]

\* Variant of TimeOutputAddWaiting: the total duration is not advanced.
TimeOutputAddWaitingNoDuration(out, tw, build) ==
    [out EXCEPT !.waiting_time = @ + Duration(tw),
                !.end_time = @ + Duration(tw),
                !.schedule = IF build THEN Append(@, WaitEvent(tw)) ELSE @]

\* TimeOutput::add_waiting
TimeOutputAddWaiting(out, tw, build) ==
    [out EXCEPT !.waiting_time = @ + Duration(tw),
                !.end_time = @ + Duration(tw),
                !.duration = @ + Duration(tw),
                !.schedule = IF build THEN Append(@, WaitEvent(tw)) ELSE @]

\* Variant of TimeOutputAddTraveling: the totals are advanced only together
\* with the event.
TimeOutputAddTravelingWhenBuilt(out, tw, build) ==
    IF build
    THEN [out EXCEPT !.traveling_time = @ + Duration(tw),
                     !.end_time = @ + Duration(tw),
                     !.duration = @ + Duration(tw),
                     !.schedule = Append(@, TravelEvent(tw))]
    ELSE out

\* TimeOutput::add_traveling
TimeOutputAddTraveling(out, tw, build) ==
    [out EXCEPT !.traveling_time = @ + Duration(tw),
                !.end_time = @ + Duration(tw),
                !.duration = @ + Duration(tw),
                !.schedule = IF build THEN Append(@, TravelEvent(tw)) ELSE @]

\* TimeOutput::add_working
TimeOutputAddWorking(out, location, tw, build) ==
    [out EXCEPT !.working_time = @ + Duration(tw),
                !.end_time = @ + Duration(tw),
                !.duration = @ + Duration(tw),
                !.schedule = IF build THEN Append(@, WorkEvent(tw, location)) ELSE @]

\* Variant of TimeOutputAddSplit: a split counts twice.
TimeOutputAddSplitTwice(out) == [out EXCEPT !.job_splits = @ + 2]

\* TimeOutput::add_split
TimeOutputAddSplit(out) == [out EXCEPT !.job_splits = @ + 1]

\* TimeOutput::add_lateness
TimeOutputAddLateness(out, lateness) == [out EXCEPT !.lateness = @ + lateness]

\* ------------------------------------------------- time.rs, WorkingTimePenalizer

\* Variant of AddWaiting: a duration of zero is recorded as well.
AddWaitingOfZero(out, duration, build) ==
    IF duration >= 0
    THEN TimeOutputAddWaiting(out, TimeWindow(out.end_time, out.end_time + duration), build)
    ELSE out

\* WorkingTimePenalizer::add_waiting: only a positive duration is recorded.
AddWaiting(out, duration, build) ==
    IF duration > 0
    THEN TimeOutputAddWaiting(out, TimeWindow(out.end_time, out.end_time + duration), build)
    ELSE out

\* WorkingTimePenalizer::add_job
AddJob(out, location, tw, build) ==
    TimeOutputAddWorking(AddWaiting(out, tw.start - out.end_time, build), location, tw, build)

\* WorkingTimePenalizer::add_travel
AddTravel(out, tw, build) ==
    TimeOutputAddTraveling(AddWaiting(out, tw.start - out.end_time, build), tw, build)

\* WorkingTimePenalizer::add_lateness
AddLateness(out, windows) ==
    TimeOutputAddLateness(out, Lateness(windows, out.end_time))

\* Variant of JobCompleted: a last hour of the job is dropped.
JobCompletedEarly(job_duration) == job_duration <= 1

\* execute_job: the test that ends the loop (job_duration == zero).
JobCompleted(job_duration) == job_duration = 0

\* Variant of NextPosition: the route is not closed, the last position stays.
NextPositionNoWrap(pos, len) == IF pos + 1 < len THEN pos + 1 ELSE pos

\* execute_travel: the position after i on the cyclic route (0-based).
NextPosition(pos, len) == (pos + 1) % len

\* ------------------------------------------------- distance.rs

\* DistancePenalizer::penalize; seq is the route, a sequence of locations.
RECURSIVE PathDistance(_, _, _)
PathDistance(matrix, seq, k) ==
    IF k >= Len(seq) THEN 0
    ELSE matrix[seq[k]][seq[k + 1]] + PathDistance(matrix, seq, k + 1)

DistancePenalize(matrix, seq) ==
    PathDistance(matrix, seq, 1) + matrix[seq[Len(seq)]][seq[1]]

\* ------------------------------------------------- time_input.rs

\* transform: the raw operation times become None when they span 24 hours or
\* start == end; a TimeInput exists iff the three time inputs are all given.
TransformOperationTimes(operation_times, working_days) ==
    IF ~IsSome(operation_times)
    THEN None
    ELSE LET start == Unwrap(operation_times)[1]
             end == Unwrap(operation_times)[2]
         IN  IF end - start = HoursPerDay \/ start = end
             THEN None
             ELSE Some(OperationTimes(start % HoursPerDay, end % HoursPerDay, working_days))

Transform(duration_matrix, job_durations, time_windows, operation_times, working_days) ==
    IF IsSome(duration_matrix) /\ IsSome(job_durations) /\ IsSome(time_windows)
    THEN Some([duration_matrix |-> Unwrap(duration_matrix),
               job_durations |-> Unwrap(job_durations),
               time_windows |-> Unwrap(time_windows),
               operation_times |-> TransformOperationTimes(operation_times, working_days)])
    ELSE None

\* ------------------------------------------------- state

VARIABLES
    raw_operation_times,        \* solve(): operation_times as given by the host
    raw_working_days,           \* solve(): working_days as given by the host
    distance_matrix,            \* DistancePenalizer.distance_matrix
    time_input,                 \* TimePenalizer.time_input (Option, from transform)
    route,                      \* WorkingTimePenalizer.route.sequence
    build_schedule,             \* WorkingTimePenalizer.build_schedule
    distance,                   \* Solution.distance
    time_output,                \* WorkingTimePenalizer.time_output
    pc,                         \* position of the evaluation
    i,                          \* finish_schedule: index into the route (0-based)
    job_duration,               \* execute_job: remaining job duration
    current_time,               \* execute_job / execute_travel: current_time
    must_fit,                   \* execute_job: must_fit
    remaining_travel_duration,  \* execute_travel: remaining_travel_duration
    solution1,                  \* test_is_better: the first solution (Option)
    solution2,                  \* test_is_better: the second solution (Option)
    better,                     \* result of is_better(solution2, solution1) (Option)
    init_route,                 \* solve(): init_route as given by the host (Option)
    input,                      \* Input built by get_input_from_raw (Option)
    solver_n,                   \* Solver.n
    current_solution,           \* Solver.current_solution (Option)
    best_solution,              \* Solver.best_solution (Option)
    time_limit,                 \* Solver.time_limit (Option)
    elapsed,                    \* chrono::Utc::now() - Solver.start
    improved,                   \* solve: improved
    run_heuristics_improved,    \* run_heuristics: improved
    run_move_improved,          \* run_move: improved
    local_move,                 \* run_heuristics: which run_move call is running
    move_i,                     \* run_move: i
    move_j,                     \* run_move: j
    least_held,                 \* history: least distance current_solution has held (Option)
    pass_start,                 \* history: current_solution when the running pass began (Option)
    outer_iterations,           \* history: completed iterations of the outer loop of solve
    date,                       \* next_working_day: the argument
    next_date,                  \* next_working_day: the result (Option)
    time_windows,               \* TimeWindows.windows of a value under construction (Option)
    operation_times,            \* the OperationTimes value a call is made on (Option)
    tw_fitting_time,            \* result of TimeWindows::find_next_fitting_time (Option)
    op_fitting_time,            \* result of OperationTimes::find_next_fitting_time (Option)
    op_contains,                \* result of OperationTimes::contains (Option)
    op_waiting_time,            \* result of OperationTimes::waiting_time (Option)
    ordering                    \* results of Solution::cmp and Solution::eq (Option)

vars == << raw_operation_times, raw_working_days, distance_matrix, time_input,
           route, build_schedule, distance, time_output, pc, i, job_duration,
           current_time, must_fit, remaining_travel_duration,
           solution1, solution2, better,
           init_route, input, solver_n, current_solution, best_solution, time_limit,
           elapsed, improved, run_heuristics_improved, run_move_improved,
           local_move, move_i, move_j, least_held, pass_start, outer_iterations,
           date, next_date, time_windows,
           operation_times, tw_fitting_time, op_fitting_time, op_contains,
           op_waiting_time, ordering >>

\* The state of the driver (solver.rs) and of the input adapter (input.rs).
driver == << init_route, input, solver_n, current_solution, best_solution, time_limit,
             elapsed, improved, run_heuristics_improved, run_move_improved,
             local_move, move_i, move_j, least_held, pass_start, outer_iterations >>

\* The state of the calls made on one TimeWindows or OperationTimes value
\* and on a pair of solutions.
calls == << operation_times, tw_fitting_time, op_fitting_time, op_contains,
            op_waiting_time, ordering >>

\* The state of the calls of next_working_day and of the TimeWindows value.
units == << date, next_date, time_windows, calls >>

\* What one evaluation leaves as it is.
inputs == << raw_operation_times, raw_working_days, distance_matrix, time_input,
             route, build_schedule, distance, solution1, solution2, better,
             driver, units >>

\* What no action changes.
penalizer == << raw_operation_times, raw_working_days, distance_matrix, time_input,
               build_schedule, driver, units >>

\* The driver before Solver::new.
DriverIdle ==
    /\ init_route = None
    /\ input = None
    /\ solver_n = 0
    /\ current_solution = None
    /\ best_solution = None
    /\ time_limit = None
    /\ elapsed = 0
    /\ improved = TRUE
    /\ run_heuristics_improved = FALSE
    /\ run_move_improved = FALSE
    /\ local_move = 0
    /\ move_i = 0
    /\ move_j = 0
    /\ least_held = None
    /\ pass_start = None
    /\ outer_iterations = 0

\* No call of next_working_day made, no TimeWindows value constructed.
CallsIdle ==
    /\ operation_times = None
    /\ tw_fitting_time = None
    /\ op_fitting_time = None
    /\ op_contains = None
    /\ op_waiting_time = None
    /\ ordering = None

UnitsIdle ==
    /\ date = 0
    /\ next_date = None
    /\ time_windows = None
    /\ CallsIdle

\* ------------------------------------------------- enumerated inputs

Locations(n) == 0..(n - 1)

\* All routes over n locations: the permutations of 0..n-1.
Routes(n) ==
    {r \in [1..n -> Locations(n)] : \A a, b \in 1..n : a # b => r[a] # r[b]}

\* A job duration with the chronological time windows of one location.
Profiles ==
    { [job |-> 3, windows |-> << TimeWindow(6, 12), TimeWindow(30, 36) >>],
      [job |-> 3, windows |-> << TimeWindow(6, 12) >>],
      [job |-> 1, windows |-> << TimeWindow(14, 40) >>],
      [job |-> 0, windows |-> << TimeWindow(20, 26) >>],
      [job |-> MaxJob, windows |-> << TimeWindow(8, 16) >>],
      [job |-> MaxJob, windows |-> << TimeWindow(6, 12), TimeWindow(30, 36) >>] }

\* Travel durations: a constant off the diagonal, or an asymmetric table.
DurationMatrices(n) ==
    { [a \in Locations(n) |-> [b \in Locations(n) |-> IF a = b THEN 0 ELSE c]] :
        c \in {0, MaxTravel} }
    \cup { [a \in Locations(n) |-> [b \in Locations(n) |->
              IF a = b THEN 0 ELSE ((a + 2 * b) % MaxTravel) + 1]] }

DistanceMatrixOf(n) ==
    [a \in Locations(n) |-> [b \in Locations(n) |-> IF a = b THEN 0 ELSE 10 * a + b + 1]]

\* Operating hours 08-16 or 10-15, and the two raw forms that transform()
\* collapses.
RawOperationTimes ==
    { Some(<< 8, 16 >>), Some(<< 10, 15 >>), Some(<< 0, HoursPerDay >>), Some(<< 8, 8 >>) }

\* No mask; Mon, Tue, Wed and Sat working; Mon to Fri working (index 0 = Monday).
RawWorkingDays ==
    { None,
      Some([d \in 0..(DaysPerWeek - 1) |-> d \in {0, 1, 2, 5}]),
      Some([d \in 0..(DaysPerWeek - 1) |-> d \in 0..4]) }

\* Scenario S2 of the test test_penalizer (penalizer.rs), the same data with a
\* single window for location 2 (scenario S3), and the data of the test
\* test_is_better (penalizer.rs).
ScenarioMatrix == << << 0, 1, 2 >>, << 1, 0, 3 >>, << 2, 3, 0 >> >>
ScenarioTable == [a \in 0..2 |-> [b \in 0..2 |-> ScenarioMatrix[a + 1][b + 1]]]
ScenarioWindows == << TimeWindow(6, 12), TimeWindow(30, 36) >>
S2TimeWindows == [l \in 0..2 |-> ScenarioWindows]
S3TimeWindows == [l \in 0..2 |-> IF l = 2 THEN << TimeWindow(6, 12) >> ELSE ScenarioWindows]
TestIsBetterTimeWindows ==
    [l \in 0..2 |-> IF l = 0 THEN << TimeWindow(6, 12), TimeWindow(54, 60) >>
                    ELSE IF l = 1 THEN ScenarioWindows
                    ELSE << TimeWindow(6, 12) >>]
ScenarioJobs == [l \in 0..2 |-> 3]

\* State after Penalizer::penalize computed the distance and
\* TimePenalizer::penalize built the WorkingTimePenalizer for the route.
InitWith(dist, durations, jobs, windows, rop, rwd, r, build) ==
    /\ raw_operation_times = rop
    /\ raw_working_days = rwd
    /\ distance_matrix = dist
    /\ time_input = Transform(Some(durations), Some(jobs), Some(windows), rop, rwd)
    /\ route = r
    /\ build_schedule = build
    /\ distance = DistancePenalize(dist, r)
    /\ time_output = TimeOutputNew(windows[r[1]][1].start)
    /\ pc = "execute_job"
    /\ i = 0
    /\ job_duration = 0
    /\ current_time = windows[r[1]][1].start
    /\ must_fit = TRUE
    /\ remaining_travel_duration = 0
    /\ solution1 = None
    /\ solution2 = None
    /\ better = None
    /\ DriverIdle
    /\ UnitsIdle

InitEnumerated ==
    \E prof \in [Locations(NumLoc) -> Profiles],
       durations \in DurationMatrices(NumLoc),
       rop \in RawOperationTimes,
       rwd \in RawWorkingDays,
       r \in Routes(NumLoc) :
        InitWith(DistanceMatrixOf(NumLoc), durations,
                 [l \in Locations(NumLoc) |-> prof[l].job],
                 [l \in Locations(NumLoc) |-> prof[l].windows],
                 rop, rwd, r, TRUE)

\* The scenarios, with operating hours 08-16 or the 24/7 form (scenario S6).
InitScenario ==
    \E windows \in {S2TimeWindows, S3TimeWindows, TestIsBetterTimeWindows},
       rop \in {Some(<< 8, 16 >>), Some(<< 0, HoursPerDay >>)},
       r \in Routes(3) :
        InitWith(ScenarioTable, ScenarioTable, ScenarioJobs, windows, rop, None, r, TRUE)

\* The scenario data with no time window at all for location 2; the route
\* does not start there (penalize reads the first window of its first location).
InitNoWindows ==
    \E jobs \in [0..2 -> {1, 3, MaxJob}],
       rop \in {Some(<< 8, 16 >>), Some(<< 10, 15 >>)},
       r \in {r \in Routes(3) : r[1] # 2} :
        InitWith(ScenarioTable, ScenarioTable, jobs,
                 [l \in 0..2 |-> IF l = 2 THEN << >> ELSE ScenarioWindows],
                 rop, None, r, TRUE)

Init == InitEnumerated \/ InitScenario \/ InitNoWindows

\* ------------------------------------------------- time.rs, the evaluation

TimeInput == Unwrap(time_input)
Location == route[i + 1]
Windows == TimeInput.time_windows[Location]

\* execute_job, lines 84-109: the locals before the loop.
ExecuteJobBegin ==
    /\ pc = "execute_job"
    /\ job_duration' = TimeInput.job_durations[Location]
    /\ current_time' = time_output.end_time
    /\ must_fit' = TRUE
    /\ pc' = "job_loop"
    /\ UNCHANGED << inputs, time_output, i, remaining_travel_duration >>

\* execute_job, line 119-124: operation_times.as_ref().unwrap() on None panics.
JobUnwrapNone ==
    /\ pc = "job_loop"
    /\ ~IsSome(TimeInput.operation_times)
    /\ pc' = "panic"
    /\ UNCHANGED << inputs, time_output, i, job_duration, current_time, must_fit,
                    remaining_travel_duration >>

\* execute_job, lines 126-134: both searches return the same interval.
JobFit(next_time_tw, next_time_op) ==
    /\ IsSome(next_time_tw) /\ IsSome(next_time_op)
    /\ next_time_tw = next_time_op
    /\ job_duration' = job_duration - Duration(Unwrap(next_time_tw))
    /\ time_output' = AddJob(time_output, Location, Unwrap(next_time_tw), build_schedule)
    /\ current_time' = time_output'.end_time
    /\ pc' = IF JobCompleted(job_duration') THEN "job_done" ELSE "job_loop"
    /\ UNCHANGED must_fit

\* execute_job, lines 135-138: the searches differ, move on without an event.
JobWait(next_time_tw, next_time_op) ==
    /\ IsSome(next_time_tw) /\ IsSome(next_time_op)
    /\ next_time_tw # next_time_op
    /\ current_time' = Max2(Unwrap(next_time_op).start, Unwrap(next_time_tw).start)
    /\ UNCHANGED << time_output, job_duration, must_fit, pc >>

\* execute_job, lines 140-149: no time window left, work in the operating hours.
JobLate(next_time_tw, next_time_op) ==
    /\ ~IsSome(next_time_tw) /\ IsSome(next_time_op)
    /\ job_duration' = job_duration - Duration(Unwrap(next_time_op))
    /\ time_output' = AddJob(time_output, Location, Unwrap(next_time_op), build_schedule)
    /\ current_time' = time_output'.end_time
    /\ pc' = IF JobCompleted(job_duration') THEN "job_done" ELSE "job_loop"
    /\ UNCHANGED must_fit

\* execute_job, lines 150-157: the operating hours cannot fit the job.
JobSplit(next_time_op) ==
    /\ ~IsSome(next_time_op)
    /\ must_fit' = FALSE
    /\ time_output' = TimeOutputAddSplit(time_output)
    /\ current_time' = time_output.end_time
    /\ UNCHANGED << job_duration, pc >>

\* execute_job, lines 111-159: one iteration of the loop.
JobLoop ==
    /\ pc = "job_loop"
    /\ IsSome(TimeInput.operation_times)
    /\ \E index \in SearchIndexes(Windows, current_time) :
        LET next_time_tw == TwFindNextFittingTime(Windows, index, current_time,
                                                  job_duration, must_fit)
            next_time_op == OpFindNextFittingTime(Unwrap(TimeInput.operation_times),
                                                  current_time, job_duration, must_fit)
        IN  \/ JobFit(next_time_tw, next_time_op)
            \/ JobWait(next_time_tw, next_time_op)
            \/ JobLate(next_time_tw, next_time_op)
            \/ JobSplit(next_time_op)
    /\ UNCHANGED << inputs, i, remaining_travel_duration >>

\* execute_job, line 160: the lateness of the finished job.
ExecuteJobEnd ==
    /\ pc = "job_done"
    /\ time_output' = AddLateness(time_output, Windows)
    /\ pc' = "execute_travel"
    /\ UNCHANGED << inputs, i, job_duration, current_time, must_fit,
                    remaining_travel_duration >>

\* execute_travel, lines 165-169: the locals before the loop.
ExecuteTravelBegin ==
    /\ pc = "execute_travel"
    /\ remaining_travel_duration' =
           TimeInput.duration_matrix[Location][route[NextPosition(i, Len(route)) + 1]]
    /\ current_time' = time_output.end_time
    /\ pc' = "travel_loop"
    /\ UNCHANGED << inputs, time_output, i, job_duration, must_fit >>

\* execute_travel, lines 171-189: one iteration of the loop.
TravelLoop ==
    /\ pc = "travel_loop"
    /\ remaining_travel_duration > 0
    /\ LET maybe_next_time_op ==
               OpFindNextFittingTime(Unwrap(TimeInput.operation_times), current_time,
                                     remaining_travel_duration, FALSE)
       IN  IF IsSome(maybe_next_time_op)
           THEN /\ remaining_travel_duration' =
                       remaining_travel_duration - Duration(Unwrap(maybe_next_time_op))
                /\ time_output' = AddTravel(time_output, Unwrap(maybe_next_time_op),
                                            build_schedule)
                /\ current_time' = time_output'.end_time
                /\ pc' = "travel_loop"
           ELSE /\ pc' = "unreachable"
                /\ UNCHANGED << time_output, current_time, remaining_travel_duration >>
    /\ UNCHANGED << inputs, i, job_duration, must_fit >>

\* finish_schedule, lines 37-42: the travel is over; next position or complete().
ExecuteTravelEnd ==
    /\ pc = "travel_loop"
    /\ ~(remaining_travel_duration > 0)
    /\ i' = i + 1
    /\ pc' = IF i + 1 = Len(route) THEN "done" ELSE "execute_job"
    /\ UNCHANGED << inputs, time_output, job_duration, current_time, must_fit,
                    remaining_travel_duration >>

Next ==
    \/ ExecuteJobBegin
    \/ JobUnwrapNone
    \/ JobLoop
    \/ ExecuteJobEnd
    \/ ExecuteTravelBegin
    \/ TravelLoop
    \/ ExecuteTravelEnd

Spec == Init /\ [][Next]_vars

\* ------------------------------------------------- penalizer.rs

\* Penalizer::penalize: the solution of a completed evaluation.
Solution(r, dist, report) == [route |-> r, distance |-> dist, time_report |-> report]

\* Variant of IsBetter: only the "less than" tests, no "greater than" returns.
IsBetterNoReturnFalse(has_time_penalizer, sol1, sol2) ==
    IF ~has_time_penalizer
    THEN sol1.distance < sol2.distance
    ELSE LET time_report1 == Unwrap(sol1.time_report)
             time_report2 == Unwrap(sol2.time_report)
         IN  \/ time_report1.job_splits < time_report2.job_splits
             \/ time_report1.lateness < time_report2.lateness
             \/ time_report1.traveling_time < time_report2.traveling_time
             \/ time_report1.duration < time_report2.duration
             \/ time_report1.waiting_time < time_report2.waiting_time
             \/ sol1.distance < sol2.distance

\* Penalizer::is_better; has_time_penalizer is self.time_penalizer.is_some().
IsBetter(has_time_penalizer, sol1, sol2) ==
    IF ~has_time_penalizer
    THEN sol1.distance < sol2.distance
    ELSE LET time_report1 == Unwrap(sol1.time_report)
             time_report2 == Unwrap(sol2.time_report)
         IN  IF time_report1.job_splits < time_report2.job_splits THEN TRUE
             ELSE IF time_report1.job_splits > time_report2.job_splits THEN FALSE
             ELSE IF time_report1.lateness < time_report2.lateness THEN TRUE
             ELSE IF time_report1.lateness > time_report2.lateness THEN FALSE
             ELSE IF time_report1.traveling_time < time_report2.traveling_time THEN TRUE
             ELSE IF time_report1.traveling_time > time_report2.traveling_time THEN FALSE
             ELSE IF time_report1.duration < time_report2.duration THEN TRUE
             ELSE IF time_report1.duration > time_report2.duration THEN FALSE
             ELSE IF time_report1.waiting_time < time_report2.waiting_time THEN TRUE
             ELSE IF time_report1.waiting_time > time_report2.waiting_time THEN FALSE
             ELSE sol1.distance < sol2.distance

\* ------------------------------------------------- penalizer.rs, test_is_better
\* Two routes are penalized one after the other, then is_better compares the
\* second solution with the first.  Besides the scenarios, is_better is applied
\* to pairs of solutions whose keys range over 0..MaxKey.

\* Largest value of a key of an enumerated solution.
MaxKey == 1

\* A time report with the given scalars; the duration is their sum.
ReportOf(splits, lateness, traveling, waiting, working) ==
    [start_time |-> 0, end_time |-> traveling + waiting + working,
     duration |-> traveling + waiting + working, lateness |-> lateness,
     working_time |-> working, waiting_time |-> waiting,
     traveling_time |-> traveling, job_splits |-> splits, schedule |-> << >>]

EnumeratedReports ==
    { ReportOf(k[1], k[2], k[3], k[4], k[5]) :
        k \in [1..5 -> 0..MaxKey] }

\* Solutions with a time report, and solutions without one.
TimedSolutions ==
    { Solution(<< 0, 1 >>, d, Some(report)) : d \in 0..MaxKey, report \in EnumeratedReports }
UntimedSolutions ==
    { Solution(<< 0, 1 >>, d, None) : d \in 0..MaxKey }

InitPair(ti, s1, s2) ==
    /\ raw_operation_times = Some(<< 8, 16 >>)
    /\ raw_working_days = None
    /\ distance_matrix = DistanceMatrixOf(2)
    /\ time_input = ti
    /\ route = s2.route
    /\ build_schedule = FALSE
    /\ distance = s2.distance
    /\ time_output = TimeOutputNew(0)
    /\ pc = "is_better"
    /\ i = 0
    /\ job_duration = 0
    /\ current_time = 0
    /\ must_fit = TRUE
    /\ remaining_travel_duration = 0
    /\ solution1 = Some(s1)
    /\ solution2 = Some(s2)
    /\ better = None
    /\ DriverIdle
    /\ UnitsIdle

InitEnumeratedPairs ==
    \/ \E s1 \in TimedSolutions, s2 \in TimedSolutions :
           InitPair(Transform(Some(ScenarioTable), Some(ScenarioJobs),
                              Some(S2TimeWindows), Some(<< 8, 16 >>), None), s1, s2)
    \/ \E s1 \in UntimedSolutions, s2 \in UntimedSolutions :
           InitPair(None, s1, s2)

InitIsBetter == InitScenario \/ InitEnumeratedPairs

\* test_is_better: the first solution is kept and another route is penalized.
PenalizeSecond ==
    /\ pc = "done"
    /\ ~IsSome(solution1)
    /\ solution1' = Some(Solution(route, distance, Some(time_output)))
    /\ \E r \in Routes(Len(route)) :
        /\ route' = r
        /\ distance' = DistancePenalize(distance_matrix, r)
        /\ time_output' = TimeOutputNew(TimeInput.time_windows[r[1]][1].start)
        /\ current_time' = TimeInput.time_windows[r[1]][1].start
    /\ pc' = "execute_job"
    /\ i' = 0
    /\ job_duration' = 0
    /\ must_fit' = TRUE
    /\ remaining_travel_duration' = 0
    /\ UNCHANGED << penalizer, solution2, better >>

\* test_is_better: the second solution is complete.
KeepSecond ==
    /\ pc = "done"
    /\ IsSome(solution1)
    /\ solution2' = Some(Solution(route, distance, Some(time_output)))
    /\ pc' = "is_better"
    /\ UNCHANGED << penalizer, route, distance, time_output, i, job_duration,
                    current_time, must_fit, remaining_travel_duration, solution1, better >>

\* test_is_better: penalizer.is_better(&solution2, &solution1).
IsBetterCall ==
    /\ pc = "is_better"
    /\ better' = Some(IsBetter(IsSome(time_input), Unwrap(solution2), Unwrap(solution1)))
    /\ pc' = "compared"
    /\ UNCHANGED << penalizer, route, distance, time_output, i, job_duration,
                    current_time, must_fit, remaining_travel_duration,
                    solution1, solution2 >>

NextIsBetter ==
    \/ Next
    \/ PenalizeSecond
    \/ KeepSecond
    \/ IsBetterCall

SpecIsBetter == InitIsBetter /\ [][NextIsBetter]_vars

\* ------------------------------------------------- output.rs

\* Ord::cmp and PartialEq::eq of Solution: the distances are compared.
SolutionCmp(a, b) ==
    [cmp |-> IF a.distance < b.distance THEN "Less"
             ELSE IF a.distance = b.distance THEN "Equal" ELSE "Greater",
     eq |-> a.distance = b.distance]

\* solution2.cmp(&solution1) and solution2 == solution1, after is_better.
SolutionCmpCall ==
    /\ pc = "compared"
    /\ ordering = None
    /\ ordering' = Some(SolutionCmp(Unwrap(solution2), Unwrap(solution1)))
    /\ pc' = "ordered"
    /\ UNCHANGED << raw_operation_times, raw_working_days, distance_matrix, time_input,
                    route, build_schedule, distance, time_output, i, job_duration,
                    current_time, must_fit, remaining_travel_duration,
                    solution1, solution2, better, driver, date, next_date,
                    time_windows, operation_times, tw_fitting_time, op_fitting_time,
                    op_contains, op_waiting_time >>

NextSolutionOrd == IsBetterCall \/ SolutionCmpCall

SpecSolutionOrd == InitEnumeratedPairs /\ [][NextSolutionOrd]_vars

\* ------------------------------------------------- penalizer.rs, build_schedule

\* Penalizer::penalize(route, false) after Penalizer::penalize(route, true) of
\* the same route: the first solution is kept.
PenalizeWithoutSchedule ==
    /\ pc = "done"
    /\ build_schedule
    /\ ~IsSome(solution1)
    /\ solution1' = Some(Solution(route, distance, Some(time_output)))
    /\ build_schedule' = FALSE
    /\ time_output' = TimeOutputNew(TimeInput.time_windows[route[1]][1].start)
    /\ current_time' = TimeInput.time_windows[route[1]][1].start
    /\ pc' = "execute_job"
    /\ i' = 0
    /\ job_duration' = 0
    /\ must_fit' = TRUE
    /\ remaining_travel_duration' = 0
    /\ UNCHANGED << raw_operation_times, raw_working_days, distance_matrix, time_input,
                    route, distance, solution2, better, driver, units >>

NextBuildSchedule == Next \/ PenalizeWithoutSchedule

SpecBuildSchedule == Init /\ [][NextBuildSchedule]_vars

\* ------------------------------------------------- local_moves.rs (from the specification)

\* The slice seq[a..=b] (0-based positions) replaced by f of the slice.
Slice(seq, a, b) == SubSeq(seq, a + 1, b + 1)
WithSlice(seq, a, b, slice) == SubSeq(seq, 1, a) \o slice \o SubSeq(seq, b + 2, Len(seq))
Reversed(seq) == [k \in 1..Len(seq) |-> seq[Len(seq) + 1 - k]]
\* The last k elements moved to the front, and the first k to the back.
RotatedRight(seq, k) == SubSeq(seq, Len(seq) - k + 1, Len(seq)) \o SubSeq(seq, 1, Len(seq) - k)
RotatedLeft(seq, k) == SubSeq(seq, k + 1, Len(seq)) \o SubSeq(seq, 1, k)

\* two_opt: reverse the slice [i..j].
TwoOpt(seq, a, b) == WithSlice(seq, a, b, Reversed(Slice(seq, a, b)))
\* swap: exchange positions i and j.
Swap(seq, a, b) ==
    [k \in 1..Len(seq) |-> IF k = a + 1 THEN seq[b + 1] ELSE IF k = b + 1 THEN seq[a + 1] ELSE seq[k]]
\* k_shift_left: move the k elements ending at j before i.
ShiftLeft(seq, a, b, k) == WithSlice(seq, a, b, RotatedRight(Slice(seq, a, b), k))
\* k_shift_right: move the k elements starting at i after j.
ShiftRight(seq, a, b, k) == WithSlice(seq, a, b, RotatedLeft(Slice(seq, a, b), k))

\* No penalizer built, no evaluation started.
EvaluationIdle ==
    /\ raw_operation_times = None
    /\ time_input = None
    /\ route = << >>
    /\ build_schedule = FALSE
    /\ distance = 0
    /\ time_output = TimeOutputNew(0)
    /\ i = 0
    /\ job_duration = 0
    /\ current_time = 0
    /\ must_fit = TRUE
    /\ remaining_travel_duration = 0
    /\ solution1 = None
    /\ solution2 = None
    /\ better = None

\* ------------------------------------------------- route.rs, solver.rs

\* Latest reading of the clock, and the count at which outer_iterations stops.
MaxElapsed == 2
MaxOuter == 2

\* Route::distance: the edges leaving the first k positions, in loop order.
RECURSIVE RouteEdges(_, _, _)
RouteEdges(sequence, matrix, k) ==
    IF k = 0 THEN 0
    ELSE RouteEdges(sequence, matrix, k - 1) + matrix[sequence[k]][sequence[k + 1]]

\* Route::distance: the loop over 0..len-1, then the closing edge.
RouteDistanceOpen(sequence, matrix) == RouteEdges(sequence, matrix, Len(sequence) - 1)

RouteDistance(sequence, matrix) ==
    RouteEdges(sequence, matrix, Len(sequence) - 1)
        + matrix[sequence[Len(sequence)]][sequence[1]]

\* solver.rs: struct Solution and Solver::evaluate.
SolverSolution(r, d) == [route |-> r, distance |-> d]
Evaluate(r, matrix) == SolverSolution(r, RouteDistance(r, matrix))

\* impl Ord for Solution: solutions compare by distance.
SolutionLess(a, b) == a.distance < b.distance

\* run_move, line 86: if new_solution < self.current_solution.
RunMoveAcceptsEqual(new_solution, current) == ~SolutionLess(current, new_solution)

RunMoveAccepts(new_solution, current) == SolutionLess(new_solution, current)

\* solve, line 141: if self.current_solution < self.best_solution.
BestImprovesNever(current, best) == SolutionLess(best, current)

BestImproves(current, best) == SolutionLess(current, best)

\* Solver::new: (0..n).collect().
Identity(len) == [k \in 1..len |-> k - 1]

\* Variant of MinMargin: two_opt leaves out the neighbouring pairs.
MinMarginWide == << 1, 2, 1, 1, 2, 3, 4, 5 >>

\* run_heuristics: min_margin of the eight run_move calls, in their order.
MinMargin == << 0, 2, 1, 1, 2, 3, 4, 5 >>

\* run_heuristics: the move of the m-th run_move call.
ApplyMove(m, seq, a, b) ==
    CASE m = 1 -> TwoOpt(seq, a, b)
      [] m = 2 -> Swap(seq, a, b)
      [] m = 3 -> ShiftLeft(seq, a, b, 1)
      [] m = 4 -> ShiftRight(seq, a, b, 1)
      [] m = 5 -> ShiftLeft(seq, a, b, 2)
      [] m = 6 -> ShiftRight(seq, a, b, 2)
      [] m = 7 -> ShiftLeft(seq, a, b, 3)
      [] m = 8 -> ShiftRight(seq, a, b, 3)

\* Solver::termination_criterion, with now - self.start = now_elapsed.
TerminationCriterion(limit, now_elapsed) ==
    IF IsSome(limit) THEN now_elapsed > Unwrap(limit) ELSE TRUE

\* Solver::one_time
OneTimeInverted(limit) == IsSome(limit)

OneTime(limit) == ~IsSome(limit)

\* A matrix given by its rows, indexed from 0.
MatrixOf(rows) ==
    [a \in 0..(Len(rows) - 1) |-> [b \in 0..(Len(rows) - 1) |-> rows[a + 1][b + 1]]]

\* The matrices of test_solver (scenario S1) and of test_route, and matrices
\* over 2, 4 and 5 locations.
S1Matrix == MatrixOf(<< << 0, 2, 1 >>, << 40, 0, 30 >>, << 600, 500, 0 >> >>)
TestRouteMatrix == MatrixOf(<< << 0, 1, 2 >>, << 30, 0, 40 >>, << 500, 600, 0 >> >>)
SolverMatrices ==
    { S1Matrix, TestRouteMatrix,
      MatrixOf(<< << 0, 1 >>, << 2, 0 >> >>),
      DistanceMatrixOf(4),
      MatrixOf(<< << 0, 3, 1, 2 >>, << 3, 0, 2, 1 >>, << 1, 2, 0, 3 >>, << 2, 1, 3, 0 >> >>),
      MatrixOf(<< << 0, 1, 3, 1, 3 >>, << 1, 0, 1, 3, 2 >>, << 2, 3, 0, 1, 2 >>,
                  << 3, 2, 2, 0, 3 >>, << 2, 1, 2, 1, 0 >> >>) }

\* No limit, or a limit of 0 or 1 units of the clock.
TimeLimits == { None, Some(0), Some(1) }

\* Solver::new(distance_matrix, time_limit)
InitSolverWith(matrix, limit) ==
    /\ distance_matrix = matrix
    /\ solver_n = Cardinality(DOMAIN matrix)
    /\ current_solution = Some(Evaluate(Identity(Cardinality(DOMAIN matrix)), matrix))
    /\ best_solution = Some(Evaluate(Identity(Cardinality(DOMAIN matrix)), matrix))
    /\ time_limit = limit
    /\ elapsed = 0
    /\ improved = TRUE
    /\ run_heuristics_improved = FALSE
    /\ run_move_improved = FALSE
    /\ local_move = 0
    /\ move_i = 0
    /\ move_j = 0
    /\ least_held = Some(RouteDistance(Identity(Cardinality(DOMAIN matrix)), matrix))
    /\ pass_start = None
    /\ outer_iterations = 0
    /\ init_route = None
    /\ input = None
    /\ raw_working_days = None
    /\ pc = "solve"
    /\ EvaluationIdle
    /\ UnitsIdle

InitSolver == \E matrix \in SolverMatrices, limit \in TimeLimits : InitSolverWith(matrix, limit)

\* What the driver leaves as it is.
evaluation == << raw_operation_times, raw_working_days, distance_matrix, time_input,
                 route, build_schedule, distance, time_output, i, job_duration,
                 current_time, must_fit, remaining_travel_duration,
                 solution1, solution2, better, init_route, input, solver_n,
                 time_limit, units >>

\* The clock readings a call of termination_criterion can see.
ClockReadings == IF IsSome(time_limit) THEN elapsed..MaxElapsed ELSE {elapsed}

\* solve, lines 132-134.
SolveBegin ==
    /\ pc = "solve"
    /\ improved' = TRUE
    /\ elapsed' = 0
    /\ pc' = "outer_loop"
    /\ UNCHANGED << evaluation, current_solution, best_solution, run_heuristics_improved,
                    run_move_improved, local_move, move_i, move_j, least_held,
                    pass_start, outer_iterations >>

\* solve, lines 135-136: while self.termination_criterion().
OuterLoop ==
    /\ pc = "outer_loop"
    /\ \E now \in ClockReadings :
        /\ elapsed' = now
        /\ IF TerminationCriterion(time_limit, now)
           THEN improved' = TRUE /\ pc' = "inner_loop"
           ELSE improved' = improved /\ pc' = "solved"
    /\ UNCHANGED << evaluation, current_solution, best_solution, run_heuristics_improved,
                    run_move_improved, local_move, move_i, move_j, least_held,
                    pass_start, outer_iterations >>

\* solve, lines 137-139: while improved & self.termination_criterion(); both
\* operands are evaluated.  run_heuristics and its first run_move begin.
InnerLoop ==
    /\ pc = "inner_loop"
    /\ \E now \in ClockReadings :
        /\ elapsed' = now
        /\ IF improved /\ TerminationCriterion(time_limit, now)
           THEN /\ run_heuristics_improved' = FALSE
                /\ run_move_improved' = FALSE
                /\ local_move' = 1
                /\ move_i' = 0
                /\ move_j' = 1 + MinMargin[1]
                /\ pass_start' = current_solution
                /\ pc' = "run_move"
           ELSE /\ pc' = "best_update"
                /\ UNCHANGED << run_heuristics_improved, run_move_improved, local_move,
                                move_i, move_j, pass_start >>
    /\ UNCHANGED << evaluation, current_solution, best_solution, improved, least_held,
                    outer_iterations >>

\* run_move, lines 83-89: one candidate.
RunMoveCandidate ==
    /\ pc = "run_move"
    /\ move_i < solver_n
    /\ move_j < solver_n
    /\ LET new_route == ApplyMove(local_move, Unwrap(current_solution).route, move_i, move_j)
           new_solution == Evaluate(new_route, distance_matrix)
       IN  IF RunMoveAccepts(new_solution, Unwrap(current_solution))
           THEN /\ current_solution' = Some(new_solution)
                /\ run_move_improved' = TRUE
                /\ least_held' = Some(Min2(Unwrap(least_held), new_solution.distance))
           ELSE UNCHANGED << current_solution, run_move_improved, least_held >>
    /\ move_j' = move_j + 1
    /\ UNCHANGED << evaluation, best_solution, elapsed, improved, run_heuristics_improved,
                    local_move, move_i, pass_start, outer_iterations, pc >>

\* run_move, lines 81-82: the inner for loop is over, the next i.
RunMoveNextI ==
    /\ pc = "run_move"
    /\ move_i < solver_n
    /\ move_j >= solver_n
    /\ move_i' = move_i + 1
    /\ move_j' = move_i + 2 + MinMargin[local_move]
    /\ UNCHANGED << evaluation, current_solution, best_solution, elapsed, improved,
                    run_heuristics_improved, run_move_improved, local_move, least_held,
                    pass_start, outer_iterations, pc >>

\* run_move returns improved; run_heuristics ors it in and calls the next
\* run_move, or returns to solve after the last.
RunMoveReturn ==
    /\ pc = "run_move"
    /\ move_i >= solver_n
    /\ run_heuristics_improved' = (run_heuristics_improved \/ run_move_improved)
    /\ IF local_move < Len(MinMargin)
       THEN /\ local_move' = local_move + 1
            /\ run_move_improved' = FALSE
            /\ move_i' = 0
            /\ move_j' = 1 + MinMargin[local_move + 1]
            /\ UNCHANGED << improved, pc >>
       ELSE /\ improved' = (run_heuristics_improved \/ run_move_improved)
            /\ pc' = "inner_loop"
            /\ UNCHANGED << local_move, run_move_improved, move_i, move_j >>
    /\ UNCHANGED << evaluation, current_solution, best_solution, elapsed, least_held,
                    pass_start, outer_iterations >>

\* solve, lines 141-143.
BestUpdate ==
    /\ pc = "best_update"
    /\ best_solution' = IF BestImproves(Unwrap(current_solution), Unwrap(best_solution))
                        THEN current_solution
                        ELSE best_solution
    /\ pc' = "restart"
    /\ UNCHANGED << evaluation, current_solution, elapsed, improved, run_heuristics_improved,
                    run_move_improved, local_move, move_i, move_j, least_held,
                    pass_start, outer_iterations >>

\* solve, line 144: generate_initial_solution shuffles 0..=n-1.
Restart ==
    /\ pc = "restart"
    /\ \E sequence \in Routes(solver_n) :
        /\ current_solution' = Some(Evaluate(sequence, distance_matrix))
        /\ least_held' = Some(Min2(Unwrap(least_held),
                                   RouteDistance(sequence, distance_matrix)))
    /\ pc' = "one_time"
    /\ UNCHANGED << evaluation, best_solution, elapsed, improved, run_heuristics_improved,
                    run_move_improved, local_move, move_i, move_j, pass_start,
                    outer_iterations >>

\* solve, lines 146-149: break when there is no time limit.
OneTimeBreak ==
    /\ pc = "one_time"
    /\ outer_iterations' = Min2(outer_iterations + 1, MaxOuter)
    /\ pc' = IF OneTime(time_limit) THEN "solved" ELSE "outer_loop"
    /\ UNCHANGED << evaluation, current_solution, best_solution, elapsed, improved,
                    run_heuristics_improved, run_move_improved, local_move, move_i,
                    move_j, least_held, pass_start >>

NextSolver ==
    \/ SolveBegin
    \/ OuterLoop
    \/ InnerLoop
    \/ RunMoveCandidate
    \/ RunMoveNextI
    \/ RunMoveReturn
    \/ BestUpdate
    \/ Restart
    \/ OneTimeBreak

SpecSolver == InitSolver /\ [][NextSolver]_vars

\* solve() without a time limit; the driver is one thread that always takes
\* its next step.
InitSolveOnce == \E matrix \in SolverMatrices : InitSolverWith(matrix, None)

SpecSolveOnce == InitSolveOnce /\ [][NextSolver]_vars /\ WF_vars(NextSolver)

\* A matrix over seven locations, the fewest for which each of the eight
\* run_move calls has a candidate (three_shift_right needs j - i >= 6).
SevenMatrix ==
    MatrixOf(<< << 0, 8, 9, 9, 8, 7, 5 >>, << 2, 0, 2, 8, 8, 6, 9 >>,
                << 3, 1, 0, 1, 5, 4, 6 >>, << 8, 3, 4, 0, 6, 5, 4 >>,
                << 7, 3, 3, 3, 0, 2, 3 >>, << 2, 7, 6, 2, 9, 0, 8 >>,
                << 5, 1, 5, 3, 9, 7, 0 >> >>)

\* solve() without a time limit, on seven locations as well.
InitLocalSearch ==
    \E matrix \in SolverMatrices \cup {SevenMatrix} : InitSolverWith(matrix, None)

SpecLocalSearch == InitLocalSearch /\ [][NextSolver]_vars

\* ------------------------------------------------- input.rs

\* Largest index and greatest length of the enumerated init routes.
MaxIndex == 2
MaxRouteLen == 3

\* init_route as the host can give it: absent, or any vector of indices.
InitRoutes ==
    {None} \cup {Some(r) : r \in UNION {[1..len -> 0..MaxIndex] : len \in 0..MaxRouteLen}}

\* Input::new
Input(matrix, ti, limit, r) ==
    [distance_matrix |-> matrix, time_input |-> ti, time_limit |-> limit, init_route |-> r]

\* get_input_from_raw, for a call without time inputs.
GetInputFromRaw(matrix, limit, r) ==
    Input(matrix, Transform(None, None, None, None, None), limit, r)

\* solve() called by the host with a distance matrix and an init route.
InitAdapter ==
    /\ distance_matrix \in SolverMatrices
    /\ init_route \in InitRoutes
    /\ input = None
    /\ solver_n = 0
    /\ current_solution = None
    /\ best_solution = None
    /\ time_limit = None
    /\ elapsed = 0
    /\ improved = TRUE
    /\ run_heuristics_improved = FALSE
    /\ run_move_improved = FALSE
    /\ local_move = 0
    /\ move_i = 0
    /\ move_j = 0
    /\ least_held = None
    /\ pass_start = None
    /\ outer_iterations = 0
    /\ raw_working_days = None
    /\ pc = "get_input_from_raw"
    /\ EvaluationIdle
    /\ UnitsIdle

\* lib.rs, solve: input::get_input_from_raw(..); nothing in it returns an error.
GetInputFromRawCall ==
    /\ pc = "get_input_from_raw"
    /\ \E limit \in TimeLimits :
        input' = Some(GetInputFromRaw(distance_matrix, limit, init_route))
    /\ pc' = "input"
    /\ UNCHANGED << raw_operation_times, raw_working_days, distance_matrix, time_input,
                    route, build_schedule, distance, time_output, i, job_duration,
                    current_time, must_fit, remaining_travel_duration,
                    solution1, solution2, better, init_route, solver_n,
                    current_solution, best_solution, time_limit, elapsed, improved,
                    run_heuristics_improved, run_move_improved, local_move, move_i,
                    move_j, least_held, pass_start, outer_iterations, units >>

NextAdapter == GetInputFromRawCall

SpecAdapter == InitAdapter /\ [][NextAdapter]_vars

\* ------------------------------------------------- operation_times.rs, calls

\* Latest date of the enumerated calls of next_working_day (two weeks).
MaxDate == 13

\* The masks with at least one working day (index 0 = Monday).
WorkingDayMasks ==
    {m \in [0..(DaysPerWeek - 1) -> BOOLEAN] : \E d \in 0..(DaysPerWeek - 1) : m[d]}

\* A WorkingDays value is built from a mask and asked for the day after date.
InitNextWorkingDay ==
    /\ raw_working_days \in {Some(m) : m \in WorkingDayMasks}
    /\ date \in 0..MaxDate
    /\ next_date = None
    /\ time_windows = None
    /\ pc = "next_working_day"
    /\ CallsIdle
    /\ distance_matrix = << >>
    /\ EvaluationIdle
    /\ DriverIdle

\* WorkingDays::new(working_days).next_working_day(date)
NextWorkingDayCall ==
    /\ pc = "next_working_day"
    /\ next_date' = Some(NextWorkingDay(NextDayCache(Unwrap(raw_working_days)), date))
    /\ pc' = "returned"
    /\ UNCHANGED << raw_operation_times, raw_working_days, distance_matrix, time_input,
                    route, build_schedule, distance, time_output, i, job_duration,
                    current_time, must_fit, remaining_travel_duration,
                    solution1, solution2, better, driver, date, time_windows, calls >>

NextNextWorkingDay == NextWorkingDayCall

SpecNextWorkingDay == InitNextWorkingDay /\ [][NextNextWorkingDay]_vars

\* ------------------------------------------------- time_windows.rs, construction

\* Latest hour of the enumerated windows and longest list given to new.
MaxTime == 3
MaxWindows == 2

\* The windows over the enumerated hours; TimeWindow::new asserts
\* start <= end, so only those with start <= end exist.
WindowSet ==
    {w \in {TimeWindow(a, b) : a \in 0..MaxTime, b \in 0..MaxTime} : w.start <= w.end}

\* The lists transform() can hand to TimeWindows::new, in any order.
WindowLists ==
    UNION {[1..len -> WindowSet] : len \in 0..MaxWindows}

InitTimeWindows ==
    /\ time_windows = None
    /\ raw_working_days = None
    /\ date = 0
    /\ next_date = None
    /\ pc = "time_windows"
    /\ CallsIdle
    /\ distance_matrix = << >>
    /\ EvaluationIdle
    /\ DriverIdle

\* TimeWindows::new(windows): the vector is stored as it is given.
TimeWindowsNew ==
    /\ pc = "time_windows"
    /\ time_windows = None
    /\ \E list \in WindowLists : time_windows' = Some(list)
    /\ UNCHANGED << raw_operation_times, raw_working_days, distance_matrix, time_input,
                    route, build_schedule, distance, time_output, pc, i, job_duration,
                    current_time, must_fit, remaining_travel_duration,
                    solution1, solution2, better, driver, date, next_date, calls >>

\* TimeWindows::add_window(time_window): the assertion, then the push.
AddWindow ==
    /\ pc = "time_windows"
    /\ IsSome(time_windows)
    /\ Len(Unwrap(time_windows)) <= MaxWindows
    /\ \E time_window \in WindowSet :
        LET list == Unwrap(time_windows)
        IN  IF list = << >> \/ list[Len(list)].end <= time_window.start
            THEN time_windows' = Some(Append(list, time_window)) /\ pc' = pc
            ELSE time_windows' = time_windows /\ pc' = "panic"
    /\ UNCHANGED << raw_operation_times, raw_working_days, distance_matrix, time_input,
                    route, build_schedule, distance, time_output, i, job_duration,
                    current_time, must_fit, remaining_travel_duration,
                    solution1, solution2, better, driver, date, next_date, calls >>

NextTimeWindows == TimeWindowsNew \/ AddWindow

SpecTimeWindows == InitTimeWindows /\ [][NextTimeWindows]_vars

\* ------------------------------------------------- time_windows.rs, calls

\* Longest need of the enumerated calls and longest list they are made on.
MaxNeed == 2
MaxCallWindows == 3

\* No evaluation running: everything of the evaluator but the arguments
\* current_time, job_duration and must_fit of a call.
ReportsIdle ==
    /\ distance_matrix = << >>
    /\ time_input = None
    /\ route = << >>
    /\ build_schedule = FALSE
    /\ distance = 0
    /\ time_output = TimeOutputNew(0)
    /\ i = 0
    /\ remaining_travel_duration = 0
    /\ solution1 = None
    /\ solution2 = None
    /\ better = None

\* The lists add_window builds: every window starts no earlier than the
\* one before it ends (windows of length zero included).
ChronologicalLists ==
    {list \in UNION {[1..len -> WindowSet] : len \in 0..MaxCallWindows} :
        \A k \in 1..(Len(list) - 1) : list[k].end <= list[k + 1].start}

\* A TimeWindows value and the arguments of one call of find_next_fitting_time.
InitFindNextFittingTime ==
    /\ time_windows \in {Some(list) : list \in ChronologicalLists}
    /\ raw_operation_times = None
    /\ raw_working_days = None
    /\ current_time \in 0..(MaxTime + 1)
    /\ job_duration \in 0..MaxNeed
    /\ must_fit \in BOOLEAN
    /\ operation_times = None
    /\ tw_fitting_time = None
    /\ op_fitting_time = None
    /\ op_contains = None
    /\ op_waiting_time = None
    /\ ordering = None
    /\ date = 0
    /\ next_date = None
    /\ pc = "find_next_fitting_time"
    /\ ReportsIdle
    /\ DriverIdle

\* TimeWindows::find_next_fitting_time(current_time, job_duration, must_fit);
\* binary_search_by may return any of the windows whose end equals current_time.
TwFindNextFittingTimeCall ==
    /\ pc = "find_next_fitting_time"
    /\ \E index \in SearchIndexes(Unwrap(time_windows), current_time) :
        tw_fitting_time' = Some(TwFindNextFittingTime(Unwrap(time_windows), index,
                                                     current_time, job_duration, must_fit))
    /\ pc' = "returned"
    /\ UNCHANGED << raw_operation_times, raw_working_days, distance_matrix, time_input,
                    route, build_schedule, distance, time_output, i, job_duration,
                    current_time, must_fit, remaining_travel_duration,
                    solution1, solution2, better, driver, date, next_date,
                    time_windows, operation_times, op_fitting_time, op_contains,
                    op_waiting_time, ordering >>

NextFindNextFittingTime == TwFindNextFittingTimeCall

SpecFindNextFittingTime == InitFindNextFittingTime /\ [][NextFindNextFittingTime]_vars

\* ------------------------------------------------- operation_times.rs, calls on OperationTimes

\* Latest hour of the enumerated calls (four days from Thursday 1970-01-01)
\* and longest need (one hour more than the longest daily span).
MaxHour == 95
MaxOpNeed == 9

\* Daily hours 08-16 (the tests), 10-15 and 00-12; OperationTimes::new asserts
\* daily_start < daily_end.
DailyHours == { << 8, 16 >>, << 10, 15 >>, << 0, 12 >> }

\* No mask, the two masks of the evaluations, and the masks with a single
\* working day: Monday, Thursday or Saturday.
CallWorkingDays ==
    RawWorkingDays
    \cup { Some([d \in 0..(DaysPerWeek - 1) |-> d = only]) : only \in {0, 3, 5} }

\* An OperationTimes value and the arguments of the calls made on it.
InitOperationTimes ==
    /\ raw_operation_times \in {Some(hours) : hours \in DailyHours}
    /\ raw_working_days \in CallWorkingDays
    /\ operation_times = Some(OperationTimes(Unwrap(raw_operation_times)[1],
                                             Unwrap(raw_operation_times)[2],
                                             raw_working_days))
    /\ current_time \in 0..MaxHour
    /\ job_duration \in 0..MaxOpNeed
    /\ must_fit \in BOOLEAN
    /\ time_windows = None
    /\ tw_fitting_time = None
    /\ op_fitting_time = None
    /\ op_contains = None
    /\ op_waiting_time = None
    /\ ordering = None
    /\ date = 0
    /\ next_date = None
    /\ pc = "operation_times"
    /\ ReportsIdle
    /\ DriverIdle

\* OperationTimes::contains(current_time)
OpContainsCall ==
    /\ pc = "operation_times"
    /\ op_contains = None
    /\ op_contains' = Some(OpContains(Unwrap(operation_times), current_time))
    /\ UNCHANGED << raw_operation_times, raw_working_days, distance_matrix, time_input,
                    route, build_schedule, distance, time_output, pc, i, job_duration,
                    current_time, must_fit, remaining_travel_duration,
                    solution1, solution2, better, driver, date, next_date,
                    time_windows, operation_times, tw_fitting_time, op_fitting_time,
                    op_waiting_time, ordering >>

\* OperationTimes::waiting_time(current_time)
OpWaitingTimeCall ==
    /\ pc = "operation_times"
    /\ op_waiting_time = None
    /\ op_waiting_time' = Some(OpWaitingTime(Unwrap(operation_times), current_time))
    /\ UNCHANGED << raw_operation_times, raw_working_days, distance_matrix, time_input,
                    route, build_schedule, distance, time_output, pc, i, job_duration,
                    current_time, must_fit, remaining_travel_duration,
                    solution1, solution2, better, driver, date, next_date,
                    time_windows, operation_times, tw_fitting_time, op_fitting_time,
                    op_contains, ordering >>

\* OperationTimes::find_next_fitting_time(current_time, job_duration, must_fit)
OpFindNextFittingTimeCall ==
    /\ pc = "operation_times"
    /\ op_fitting_time = None
    /\ op_fitting_time' = Some(OpFindNextFittingTime(Unwrap(operation_times), current_time,
                                                     job_duration, must_fit))
    /\ UNCHANGED << raw_operation_times, raw_working_days, distance_matrix, time_input,
                    route, build_schedule, distance, time_output, pc, i, job_duration,
                    current_time, must_fit, remaining_travel_duration,
                    solution1, solution2, better, driver, date, next_date,
                    time_windows, operation_times, tw_fitting_time, op_contains,
                    op_waiting_time, ordering >>

NextOperationTimes == OpContainsCall \/ OpWaitingTimeCall \/ OpFindNextFittingTimeCall

SpecOperationTimes == InitOperationTimes /\ [][NextOperationTimes]_vars

\* ------------------------------------------------- properties

Schedule == time_output.schedule
WorkEvents == {Schedule[k] : k \in {k \in 1..Len(Schedule) : Schedule[k].kind = "Work"}}
TravelEvents == {k \in 1..Len(Schedule) : Schedule[k].kind = "Travel"}
HasOperationTimes == IsSome(time_input) /\ IsSome(TimeInput.operation_times)
Op == Unwrap(TimeInput.operation_times)

\* Sum of the job durations of the first k positions of the route.
RECURSIVE SumJobs(_)
SumJobs(k) ==
    IF k = 0 THEN 0 ELSE TimeInput.job_durations[route[k]] + SumJobs(k - 1)

\* Sum of the travel durations of the legs leaving the first k positions.
RECURSIVE SumLegs(_)
SumLegs(k) ==
    IF k = 0 THEN 0
    ELSE TimeInput.duration_matrix[route[k]][route[(k % Len(route)) + 1]] + SumLegs(k - 1)

\* Number of positions whose job is finished.
JobsFinished ==
    IF pc \in {"job_done", "execute_travel", "travel_loop"} THEN i + 1 ELSE i
\* Number of positions whose travel is finished.
LegsFinished == i

\* One iteration of the execute_job loop, whatever its branch.
JobLoopIteration == JobLoop \/ JobUnwrapNone

\* C1: every execute_job loop ends after finitely many iterations.  The loop
\* body is a function of the evaluator's state, so an iteration that leaves the
\* state as it is repeats forever: at the head of the loop an iteration that
\* changes the state must be possible.
JobLoopEnds == pc = "job_loop" => ENABLED << JobLoopIteration >>_vars

\* C2: in every state of the evaluation and in the completed report,
\* duration == waiting_time + working_time + traveling_time.
DurationIsSum ==
    time_output.duration =
        time_output.waiting_time + time_output.working_time + time_output.traveling_time

DurationIsSumWitness ==
    /\ pc = "done"
    /\ time_output.waiting_time > 0
    /\ time_output.working_time > 0
    /\ time_output.traveling_time > 0
    /\ time_output.job_splits > 0
    /\ time_output.lateness > 0

\* C3: the working time of a completed evaluation is the sum of the job
\* durations of the route; the remaining job duration is never negative and
\* every finished job has worked exactly its duration.
WorkingTimeIsJobSum ==
    /\ job_duration >= 0
    /\ pc \in {"job_done", "execute_travel", "travel_loop", "execute_job", "done"}
           => time_output.working_time = SumJobs(JobsFinished)
    /\ pc = "done" => time_output.working_time = SumJobs(Len(route))

\* A completed evaluation with a split job that was also worked past the last
\* time window of its location.
WorkingTimeIsJobSumWitness ==
    /\ pc = "done"
    /\ time_output.job_splits > 0
    /\ time_output.lateness > 0
    /\ Cardinality({k \in 1..Len(Schedule) : Schedule[k].kind = "Work"}) > Len(route)

\* C4: the traveling time of a completed evaluation is the sum of the travel
\* durations of all legs, closing leg included; the unreachable!() branch of
\* execute_travel is never taken, every travel interval has positive length.
TravelingTimeIsLegSum ==
    /\ pc # "unreachable"
    /\ remaining_travel_duration >= 0
    /\ pc = "travel_loop" /\ remaining_travel_duration > 0
           => LET tw == OpFindNextFittingTime(Op, current_time,
                                              remaining_travel_duration, FALSE)
              IN  IsSome(tw) /\ Duration(Unwrap(tw)) > 0
    /\ pc \in {"execute_job", "job_loop", "job_done", "execute_travel", "done"}
           => time_output.traveling_time = SumLegs(LegsFinished)
    /\ pc = "done" => time_output.traveling_time = SumLegs(Len(route))

\* A completed evaluation in which a travel was cut by the daily end.
TravelingTimeIsLegSumWitness ==
    /\ pc = "done"
    /\ time_output.traveling_time > 0
    /\ Cardinality(TravelEvents) > Len(route)

\* C5: every Work event lies within operating hours: start and end on the same
\* day, time of day inside [daily_start, daily_end], and on a working day when
\* a working-days mask is given.
WorkWithinOperatingHours ==
    HasOperationTimes =>
        \A e \in WorkEvents :
            /\ DateOf(e.window.start) = DateOf(e.window.end)
            /\ Op.daily_start <= TimeOf(e.window.start)
            /\ TimeOf(e.window.end) <= Op.daily_end
            /\ IsSome(raw_working_days)
                   => Unwrap(raw_working_days)[Weekday(DateOf(e.window.start))]

\* C6: in a feasible completed schedule (no split, no lateness) every Work
\* event is contained in one time window of its location.
FeasibleWorkInsideWindow ==
    (pc = "done" /\ time_output.job_splits = 0 /\ time_output.lateness = 0) =>
        \A e \in WorkEvents :
            \E k \in 1..Len(TimeInput.time_windows[e.location]) :
                LET w == TimeInput.time_windows[e.location][k]
                IN  w.start <= e.window.start /\ e.window.end <= w.end

\* C7: once the job of a location whose duration is longer than the daily
\* operating span is finished, or is being worked in pieces, job_splits >= 1;
\* so for every completed evaluation of a route with such a location.
SplitDetected ==
    HasOperationTimes =>
        /\ \A k \in 1..JobsFinished :
               TimeInput.job_durations[route[k]] > OpDuration(Op)
                   => time_output.job_splits >= 1
        /\ (pc = "job_loop" /\ ~must_fit) => time_output.job_splits >= 1
        /\ (pc = "job_loop" /\ TimeInput.job_durations[Location] > OpDuration(Op)
               /\ time_output.end_time # current_time) => ~must_fit

SplitDetectedWitness ==
    /\ pc = "done"
    /\ \E k \in 1..Len(route) : TimeInput.job_durations[route[k]] > OpDuration(Op)
    /\ time_output.job_splits >= 1

\* C8: scenario S2 on route [0, 1, 2]: from Jan 1 06:00 (hour 6) to Jan 3
\* 13:00 (hour 61) with nine events, duration 55h, waiting 40h, working 9h,
\* traveling 6h, lateness 23h, no split, distance 6.
IsS2 ==
    /\ IsSome(time_input)
    /\ TimeInput.time_windows = S2TimeWindows
    /\ TimeInput.duration_matrix = ScenarioTable
    /\ route = << 0, 1, 2 >>

S2Report ==
    [start_time |-> 6, end_time |-> 61, duration |-> 55, lateness |-> 23,
     working_time |-> 9, waiting_time |-> 40, traveling_time |-> 6, job_splits |-> 0,
     schedule |-> << WaitEvent(TimeWindow(6, 8)),
                     WorkEvent(TimeWindow(8, 11), 0),
                     TravelEvent(TimeWindow(11, 12)),
                     WaitEvent(TimeWindow(12, 32)),
                     WorkEvent(TimeWindow(32, 35), 1),
                     TravelEvent(TimeWindow(35, 38)),
                     WaitEvent(TimeWindow(38, 56)),
                     WorkEvent(TimeWindow(56, 59), 2),
                     TravelEvent(TimeWindow(59, 61)) >>]

ScenarioS2 == (IsS2 /\ pc = "done") => (time_output = S2Report /\ distance = 6)

ScenarioS2Witness == IsS2 /\ pc = "done" /\ Len(Schedule) = 9

\* C10: with operation_times (0, 24h) or start == end and the three time
\* inputs given, time mode is active without operating hours and every
\* evaluation completes normally.
IsCollapsed ==
    /\ IsSome(raw_operation_times)
    /\ \/ Unwrap(raw_operation_times)[2] - Unwrap(raw_operation_times)[1] = HoursPerDay
       \/ Unwrap(raw_operation_times)[1] = Unwrap(raw_operation_times)[2]

CollapsedHoursComplete ==
    IsCollapsed =>
        /\ IsSome(time_input)
        /\ ~IsSome(TimeInput.operation_times)
        /\ pc # "panic"

\* The five time keys and the distance of a solution, in comparison order.
Keys(sol) ==
    LET report == Unwrap(sol.time_report)
    IN  << report.job_splits, report.lateness, report.traveling_time,
           report.duration, report.waiting_time, sol.distance >>

\* Strict lexicographic order on sequences of equal length.
RECURSIVE LexLess(_, _)
LexLess(a, b) ==
    IF a = << >> THEN FALSE
    ELSE \/ Head(a) < Head(b)
         \/ Head(a) = Head(b) /\ LexLess(Tail(a), Tail(b))

IsS3 ==
    /\ IsSome(time_input)
    /\ HasOperationTimes
    /\ TimeInput.time_windows = S3TimeWindows
    /\ IsSome(solution1) /\ Unwrap(solution1).route = << 0, 1, 2 >>
    /\ IsSome(solution2) /\ Unwrap(solution2).route = << 2, 1, 0 >>

\* C9: with a TimeInput, is_better(a, b) holds exactly when the keys
\* (job_splits, lateness, traveling_time, duration, waiting_time, distance) of
\* a are lexicographically smaller than those of b; without one, exactly when
\* a.distance < b.distance.  For S3, route [2,1,0] is better than [0,1,2].
IsBetterIsLexicographic ==
    pc = "compared" =>
        /\ Unwrap(better) =
               IF IsSome(time_input)
               THEN LexLess(Keys(Unwrap(solution2)), Keys(Unwrap(solution1)))
               ELSE Unwrap(solution2).distance < Unwrap(solution1).distance
        /\ IsS3 => Unwrap(better)

\* S3 evaluated and compared: the job_splits tie and the lateness decides.
IsBetterIsLexicographicWitness ==
    /\ pc = "compared"
    /\ IsS3
    /\ Unwrap(better)
    /\ Keys(Unwrap(solution2))[1] = Keys(Unwrap(solution1))[1]
    /\ Keys(Unwrap(solution2))[2] < Keys(Unwrap(solution1))[2]

\* C16: next_working_day(d) is the earliest date strictly after d whose weekday
\* is a working day; it is d + 7 days when the weekday of d is the only
\* working day.
NextWorkingDayIsEarliest ==
    (pc = "returned" /\ IsSome(next_date)) =>
        LET mask == Unwrap(raw_working_days)
            r == Unwrap(next_date)
        IN  /\ r > date
            /\ mask[Weekday(r)]
            /\ \A d \in (date + 1)..(r - 1) : ~mask[Weekday(d)]
            /\ (\A w \in 0..(DaysPerWeek - 1) : mask[w] <=> w = Weekday(date))
                   => r = date + DaysPerWeek

\* C17: a TimeWindows value that exists is in chronological order without
\* overlap, w[i].end <= w[i+1].start: a list that is not is rejected.
TimeWindowsChronological ==
    IsSome(time_windows) =>
        \A k \in 1..(Len(Unwrap(time_windows)) - 1) :
            Unwrap(time_windows)[k].end <= Unwrap(time_windows)[k + 1].start

\* C11: scenario S1: without time inputs and without a time limit solve() ends
\* with best route [1, 0, 2] and best distance 541, whatever permutation the
\* random restart drew.
IsS1 == distance_matrix = S1Matrix /\ IsSome(best_solution) /\ ~IsSome(time_limit)

ScenarioS1 ==
    (IsS1 /\ pc = "solved") =>
        /\ Unwrap(best_solution).route = << 1, 0, 2 >>
        /\ Unwrap(best_solution).distance = 541

\* S1 solved after a restart that drew the identity, which costs 632.
ScenarioS1Witness ==
    /\ IsS1
    /\ pc = "solved"
    /\ Unwrap(current_solution) = SolverSolution(<< 0, 1, 2 >>, 632)
    /\ outer_iterations = 1

\* C12: at the end of every iteration of the outer loop of solve, and when
\* solve returns, best is less than or equal to every solution current has
\* held, the restart solution of that iteration included.
BestIsLeastHeld ==
    (pc \in {"one_time", "solved"} /\ IsSome(best_solution)) =>
        Unwrap(best_solution).distance <= Unwrap(least_held)

\* C13: with a time limit the driver stops only once the elapsed time has
\* reached the limit, and has run at least one heuristic pass when the limit
\* is positive.
StopsOnlyAfterTimeLimit ==
    (pc = "solved" /\ IsSome(time_limit)) =>
        /\ elapsed >= Unwrap(time_limit)
        /\ Unwrap(time_limit) > 0 => IsSome(pass_start)

\* C14: without a time limit solve() terminates: a further pass is run only
\* after a pass that strictly improved current, and the outer loop is left
\* after its first iteration, with one best update and one restart.
SolveOnceTerminates ==
    /\ [](/\ (pc = "inner_loop" /\ IsSome(pass_start)) =>
               (improved <=> SolutionLess(Unwrap(current_solution), Unwrap(pass_start)))
          /\ outer_iterations <= 1
          /\ pc \in {"best_update", "restart", "one_time"} => outer_iterations = 0
          /\ pc = "solved" => outer_iterations = 1)
    /\ <>(pc = "solved")

\* solve() returned without a time limit after a descent that found a route
\* shorter than the identity.
SolveOnceTerminatesWitness ==
    /\ pc = "solved"
    /\ ~IsSome(time_limit)
    /\ outer_iterations = 1
    /\ Unwrap(best_solution).distance
           < RouteDistance(Identity(solver_n), distance_matrix)

\* C15: during a heuristic pass current is replaced only by a candidate that
\* is strictly better; no step of a pass leaves current with an equal or a
\* higher cost on another route.
CurrentOnlyImproves ==
    [][pc = "run_move" =>
          \/ current_solution' = current_solution
          \/ Unwrap(current_solution').distance < Unwrap(current_solution).distance]_vars

\* A pass that has accepted a candidate and now meets a candidate of equal
\* cost on another route.
CurrentOnlyImprovesWitness ==
    /\ pc = "run_move"
    /\ run_move_improved
    /\ move_i < solver_n
    /\ move_j < solver_n
    /\ LET new_route == ApplyMove(local_move, Unwrap(current_solution).route, move_i, move_j)
       IN  /\ new_route # Unwrap(current_solution).route
           /\ RouteDistance(new_route, distance_matrix) = Unwrap(current_solution).distance

\* A permutation of 0..len-1.
IsPermutation(seq, len) ==
    /\ Len(seq) = len
    /\ \A k \in 0..(len - 1) : \E q \in 1..Len(seq) : seq[q] = k

\* C18: an init_route that is not a permutation of 0..N makes the adapter fail:
\* an Input that exists holds no init route, or a permutation of 0..N.
InitRouteIsPermutation ==
    (IsSome(input) /\ IsSome(Unwrap(input).init_route)) =>
        IsPermutation(Unwrap(Unwrap(input).init_route),
                      Cardinality(DOMAIN Unwrap(input).distance_matrix))

\* The edges leaving the first k positions of a cyclic route.
RECURSIVE CycleSum(_, _, _)
CycleSum(seq, matrix, k) ==
    IF k = 0 THEN 0
    ELSE matrix[seq[k]][seq[(k % Len(seq)) + 1]] + CycleSum(seq, matrix, k - 1)

\* C19: the distance of a route of length N >= 2 is the sum of
\* matrix[route[i]][route[i+1]] over consecutive positions plus the closing
\* edge; Route::distance and DistancePenalizer::penalize agree on it.
DistanceIsCycleSum ==
    \A sol \in {current_solution, best_solution} :
        (IsSome(sol) /\ solver_n >= 2) =>
            /\ Unwrap(sol).distance
                   = CycleSum(Unwrap(sol).route, distance_matrix, solver_n)
            /\ Unwrap(sol).distance
                   = DistancePenalize(distance_matrix, Unwrap(sol).route)
            /\ (distance_matrix = TestRouteMatrix /\ Unwrap(sol).route = << 0, 1, 2 >>)
                   => Unwrap(sol).distance = 541

\* A route over five locations drawn by the restart whose distance differs
\* from that of the reversed route.
DistanceIsCycleSumWitness ==
    /\ pc = "one_time"
    /\ solver_n = 5
    /\ Unwrap(current_solution).route # Identity(solver_n)
    /\ Unwrap(current_solution).distance
           # RouteDistance(Reversed(Unwrap(current_solution).route), distance_matrix)

\* The scalars of a time report.
Scalars(report) ==
    << report.start_time, report.end_time, report.duration, report.lateness,
       report.working_time, report.waiting_time, report.traveling_time,
       report.job_splits >>

\* C20: evaluating with build_schedule == false gives the same start_time,
\* end_time, duration, lateness, working_time, waiting_time, traveling_time
\* and job_splits as with build_schedule == true, and no event.
SameScalarsWithoutSchedule ==
    /\ ~build_schedule => time_output.schedule = << >>
    /\ (pc = "done" /\ ~build_schedule /\ IsSome(solution1)) =>
           Scalars(time_output) = Scalars(Unwrap(Unwrap(solution1).time_report))

\* Both evaluations of a route are complete; the first one logged waits,
\* work pieces of a split job and travels, with lateness.
SameScalarsWithoutScheduleWitness ==
    /\ pc = "done"
    /\ ~build_schedule
    /\ IsSome(solution1)
    /\ Unwrap(solution1).route = route
    /\ Len(Unwrap(Unwrap(solution1).time_report).schedule) > 2 * Len(route)
    /\ time_output.job_splits > 0
    /\ time_output.lateness > 0
    /\ time_output.waiting_time > 0
    /\ time_output.traveling_time > 0

\* The first window (1-based) whose end is strictly after now, 0 if none.
FirstEndingAfter(windows, now) ==
    LET later == {k \in 1..Len(windows) : windows[k].end > now}
    IN  IF later = {} THEN 0 ELSE CHOOSE k \in later : \A m \in later : k <= m

\* The reference of find_next_fitting_time on a chronological list.
TwReference(windows, now, need, fit) ==
    LET first == FirstEndingAfter(windows, now)
    IN  IF first = 0
        THEN None
        ELSE IF ~fit
        THEN LET start == Max2(windows[first].start, now)
             IN  Some(TimeWindow(start, start + Min2(need, Duration(windows[first]))))
        ELSE LET fits == {k \in first..Len(windows) : Duration(windows[k]) >= need}
             IN  IF fits = {}
                 THEN None
                 ELSE LET w == windows[CHOOSE k \in fits : \A m \in fits : k <= m]
                      IN  Some(TimeWindow(Max2(w.start, now), Max2(w.start, now) + need))

\* C21: on every chronological window list, lists with windows of length
\* zero that end where the previous window ends included, the result of
\* TimeWindows.find_next_fitting_time(now, need, must_fit) is the reference:
\* none without a window ending strictly after now, otherwise computed from
\* the first such window (must_fit false) or the first window from there on
\* that is long enough (must_fit true).
FindNextFittingTimeIsReference ==
    (pc = "returned" /\ IsSome(tw_fitting_time))
        => Unwrap(tw_fitting_time)
               = TwReference(Unwrap(time_windows), current_time, job_duration, must_fit)

\* The first date after date that is a working day; the next calendar day
\* without a mask.
NextWorkingDate(working_days, after) ==
    IF IsSome(working_days)
    THEN CHOOSE d \in (after + 1)..(after + DaysPerWeek) :
            /\ Unwrap(working_days)[Weekday(d)]
            /\ \A e \in (after + 1)..(d - 1) : ~Unwrap(working_days)[Weekday(e)]
    ELSE after + 1

\* The reference of OperationTimes::find_next_fitting_time.
OpReference(op, working_days, now, need, fit) ==
    LET s == now + OpWaitingTime(op, now)
        e == Min2(s + need, AndTime(DateOf(s), op.daily_end))
        next_start == AndTime(NextWorkingDate(working_days, DateOf(now)), op.daily_start)
    IN  IF ~fit \/ e - s = need
        THEN Some(TimeWindow(s, e))
        ELSE IF need > op.daily_end - op.daily_start
        THEN None
        ELSE Some(TimeWindow(next_start, next_start + need))

\* C22: OperatingHours.find_next_fitting_time(now, need, must_fit) is the
\* reference: [s, e] with s = now + waiting_time(now) and e the earlier of
\* s + need and that day's daily_end when must_fit is false or e - s = need;
\* with must_fit true none exactly when need exceeds the daily span, and
\* otherwise need hours from the daily_start of the next working day after
\* now; an interval returned with must_fit true is need long and lies inside
\* one day's [daily_start, daily_end].
OpFindNextFittingTimeIsReference ==
    IsSome(op_fitting_time) =>
        LET op == Unwrap(operation_times)
            result == Unwrap(op_fitting_time)
        IN  /\ result = OpReference(op, raw_working_days, current_time, job_duration, must_fit)
            /\ must_fit => (result = None <=> job_duration > op.daily_end - op.daily_start)
            /\ (must_fit /\ IsSome(result)) =>
                    /\ Duration(Unwrap(result)) = job_duration
                    /\ AndTime(DateOf(Unwrap(result).start), op.daily_start)
                           <= Unwrap(result).start
                    /\ Unwrap(result).end
                           <= AndTime(DateOf(Unwrap(result).start), op.daily_end)

\* C23: OperatingHours.contains(t) is true exactly when the time of day of t
\* is in [daily_start, daily_end) and, when a working-days mask is given, the
\* weekday of t is a working day.
OpContainsOnWorkingDays ==
    IsSome(op_contains) =>
        LET op == Unwrap(operation_times)
        IN  Unwrap(op_contains)
                <=> /\ op.daily_start <= TimeOf(current_time)
                    /\ TimeOf(current_time) < op.daily_end
                    /\ IsSome(raw_working_days)
                           => Unwrap(raw_working_days)[Weekday(DateOf(current_time))]

\* C24: without a working-days mask waiting_time(t) is zero exactly when
\* contains(t), and otherwise t + waiting_time(t) is the earliest instant
\* after t whose time of day is daily_start (hours 08-16: 07:00 -> 1h,
\* 16:00 -> 16h, 17:00 -> 15h).
WaitingTimeToNextDailyStart ==
    (raw_working_days = None /\ IsSome(op_waiting_time) /\ IsSome(op_contains)) =>
        LET op == Unwrap(operation_times)
            wait == Unwrap(op_waiting_time)
        IN  /\ wait = 0 <=> Unwrap(op_contains)
            /\ wait # 0 =>
                    /\ wait > 0
                    /\ TimeOf(current_time + wait) = op.daily_start
                    /\ \A t \in (current_time + 1)..(current_time + wait - 1) :
                           TimeOf(t) # op.daily_start
            /\ (op.daily_start = 8 /\ op.daily_end = 16) =>
                    /\ TimeOf(current_time) = 7 => wait = 1
                    /\ TimeOf(current_time) = 16 => wait = 16
                    /\ TimeOf(current_time) = 17 => wait = 15

\* Both calls made at 17:00 with hours 08-16 and no mask: the wait runs to the
\* next calendar day.
WaitingTimeToNextDailyStartWitness ==
    /\ raw_working_days = None
    /\ raw_operation_times = Some(<< 8, 16 >>)
    /\ TimeOf(current_time) = 17
    /\ op_contains = Some(FALSE)
    /\ op_waiting_time = Some(15)

\* Number of positions whose lateness has been added (execute_job returned).
LatenessAdded == IF pc \in {"execute_travel", "travel_loop"} THEN i + 1 ELSE i

\* c_k: the end of the last Work event of the job at position k (1-based).
FinishTime(k) ==
    LET works == {e \in 1..Len(Schedule) :
                    Schedule[e].kind = "Work" /\ Schedule[e].location = route[k]}
    IN  Schedule[CHOOSE e \in works : \A f \in works : f <= e].window.end

\* The lateness of position k against the last window of its location.
PositionLateness(k) ==
    LET windows == TimeInput.time_windows[route[k]]
    IN  IF windows = << >>
        THEN 0
        ELSE Max2(0, FinishTime(k) - windows[Len(windows)].end)

RECURSIVE SumLateness(_)
SumLateness(k) == IF k = 0 THEN 0 ELSE SumLateness(k - 1) + PositionLateness(k)

\* C25: the lateness of a schedule is the sum over the finished positions of
\* max(0, c - end of the last time window of the location), c being the end
\* of the schedule when the job was finished; a location without time windows
\* adds nothing, and only the last window counts.
LatenessIsSumOverPositions ==
    (build_schedule /\ pc \in {"execute_job", "job_loop", "job_done", "execute_travel",
                                "travel_loop", "done"})
        => time_output.lateness = SumLateness(LatenessAdded)

\* A completed evaluation with a late job, a job at a location without time
\* windows, and a job worked outside every window of its location that is not
\* late against the last one.
LatenessIsSumOverPositionsWitness ==
    /\ pc = "done"
    /\ build_schedule
    /\ time_output.lateness > 0
    /\ \E k \in 1..Len(route) : TimeInput.time_windows[route[k]] = << >>
    /\ \E k \in 1..Len(route) :
        /\ TimeInput.time_windows[route[k]] # << >>
        /\ PositionLateness(k) = 0
        /\ \E e \in 1..Len(Schedule) :
            /\ Schedule[e].kind = "Work"
            /\ Schedule[e].location = route[k]
            /\ \A w \in 1..Len(TimeInput.time_windows[route[k]]) :
                   \/ Schedule[e].window.start < TimeInput.time_windows[route[k]][w].start
                   \/ Schedule[e].window.end > TimeInput.time_windows[route[k]][w].end

\* Number of Work events of the job at position k (1-based).
JobPieces(k) ==
    Cardinality({e \in 1..Len(Schedule) :
                    Schedule[e].kind = "Work" /\ Schedule[e].location = route[k]})

RECURSIVE SumCuts(_)
SumCuts(k) == IF k = 0 THEN 0 ELSE SumCuts(k - 1) + (JobPieces(k) - 1)

\* C26: job_splits of a completed schedule counts the cuts of the jobs: a job
\* worked in k separate Work events contributes k - 1.
JobSplitsCountCuts ==
    (pc = "done" /\ build_schedule) => time_output.job_splits = SumCuts(Len(route))

\* Number of jobs whose execute_job has begun.
JobsBegun == IF pc \in {"execute_job", "done"} THEN i ELSE i + 1

\* C27: in one execute_job must_fit starts true, changes to false at most once
\* and never back; job_splits grows by one exactly at that change, so it
\* counts the changes and is at most the number of jobs executed so far.
MustFitFlipsOncePerJob ==
    /\ [](time_output.job_splits <= JobsBegun)
    /\ [][/\ (pc = "execute_job" /\ pc' = "job_loop") => must_fit'
          /\ (pc = "job_loop" /\ ~must_fit) => ~must_fit'
          /\ (must_fit /\ ~must_fit')
                 <=> time_output'.job_splits # time_output.job_splits
          /\ (must_fit /\ ~must_fit')
                 => time_output'.job_splits = time_output.job_splits + 1]_vars

\* A completed evaluation of two jobs or more in which one job was split and
\* another was not.
MustFitFlipsOncePerJobWitness ==
    /\ pc = "done"
    /\ time_output.job_splits >= 1
    /\ time_output.job_splits < Len(route)

\* C28: with build_schedule true the events are contiguous at every point of
\* the evaluation: the first starts at start_time, each ends where the next
\* starts, the last ends at end_time, and every Wait event has a positive
\* length.
ScheduleContiguous ==
    (build_schedule /\ pc \in {"execute_job", "job_loop", "job_done", "execute_travel",
                                "travel_loop", "done"})
        => /\ Schedule = << >> => time_output.end_time = time_output.start_time
           /\ Schedule # << >> =>
                  /\ Schedule[1].window.start = time_output.start_time
                  /\ Schedule[Len(Schedule)].window.end = time_output.end_time
           /\ \A e \in 1..(Len(Schedule) - 1) :
                  Schedule[e].window.end = Schedule[e + 1].window.start
           /\ \A e \in 1..Len(Schedule) :
                  Schedule[e].kind = "Wait"
                      => Schedule[e].window.end > Schedule[e].window.start

\* A completed schedule with a Wait event, with a Travel event that follows a
\* Work event directly, and with a Work event that follows a Travel event
\* directly.
ScheduleContiguousWitness ==
    /\ pc = "done"
    /\ build_schedule
    /\ \E e \in 1..Len(Schedule) : Schedule[e].kind = "Wait"
    /\ \E e \in 1..(Len(Schedule) - 1) :
           Schedule[e].kind = "Work" /\ Schedule[e + 1].kind = "Travel"
    /\ \E e \in 1..(Len(Schedule) - 1) :
           Schedule[e].kind = "Travel" /\ Schedule[e + 1].kind = "Work"

\* C29: the order implemented on Solution is the six-key lexicographic order:
\* for two solutions a and b with time reports, a < b under Ord exactly when
\* is_better(a, b), and a == b exactly when all six keys are equal.
SolutionOrdIsLexicographic ==
    (pc = "ordered" /\ IsSome(time_input)) =>
        /\ Unwrap(ordering).cmp = "Less" <=> Unwrap(better)
        /\ Unwrap(ordering).eq <=> Keys(Unwrap(solution2)) = Keys(Unwrap(solution1))
        /\ Unwrap(ordering).cmp = "Equal"
               <=> Keys(Unwrap(solution2)) = Keys(Unwrap(solution1))

\* The least j - i of the candidates of the eight moves: two_opt, swap,
\* one_shift left and right, two_shift left and right, three_shift left and
\* right.
MinGap == << 1, 3, 2, 2, 3, 4, 5, 6 >>

\* The index pairs (i, j) of the neighbourhood of move m over len locations.
Neighbourhood(m, len) ==
    {p \in (0..(len - 1)) \X (0..(len - 1)) : p[1] < p[2] /\ p[2] - p[1] >= MinGap[m]}

\* C30: without a time limit the best solution held when solve() returns is a
\* local optimum: no move of the eight, applied to its route at any index pair
\* of that move's neighbourhood, gives a strictly better solution.
BestIsLocalOptimum ==
    (pc = "solved" /\ ~IsSome(time_limit)) =>
        \A m \in 1..Len(MinGap) : \A p \in Neighbourhood(m, solver_n) :
            ~SolutionLess(Evaluate(ApplyMove(m, Unwrap(best_solution).route, p[1], p[2]),
                                   distance_matrix),
                          Unwrap(best_solution))

\* solve() returned on seven locations, where every move has a candidate, with
\* a best solution that the descent reached from the identity.
BestIsLocalOptimumWitness ==
    /\ pc = "solved"
    /\ ~IsSome(time_limit)
    /\ \A m \in 1..Len(MinGap) : Neighbourhood(m, solver_n) # {}
    /\ Unwrap(best_solution).route # Identity(solver_n)
    /\ Unwrap(best_solution).distance
           < RouteDistance(Identity(solver_n), distance_matrix)
====
